---- MODULE Spec2Model ----
(***************************************************************************)
(* The three CSV-to-static-site generators of the repository:              *)
(*   "G"  generate_sites.py          (positional rows, docs/shops/<slug>/) *)
(*   "B"  build_sites.py             (positional rows, docs/businesses/)   *)
(*   "S"  scripts/generate_sites.py  (header-keyed rows, docs/stores/)     *)
(* A text is a sequence of characters; a character is a one-token string:  *)
(* an ASCII character stands for itself, any other character is written by *)
(* its code point ("U+00B7").                                              *)
(***************************************************************************)
EXTENDS Integers, Sequences, FiniteSets, TLC

VARIABLES
  gen,        \* which generator this behaviour runs
  family,     \* the family of input rows the input files are drawn from
  pc,         \* "idle" | "parsing" | "done" | "failed"
  error,      \* the exception that ended the run, "none" if none did
  runs,       \* number of runs started so far
  input,      \* the data rows of the input file read so far in this run
  consumed,   \* number of data rows consumed by the loop (enumerate counter)
  used_slugs, \* the slug visited-set of the run
  shops,      \* the listings built so far in this run
  origin,     \* origin[i]: 1-based data-row position that produced shops[i]
  fs,         \* the output tree: path -> content
  printed     \* the count of the completion message, <<>> if none printed

vars == <<gen, family, pc, error, runs, input, consumed, used_slugs, shops, origin, fs, printed>>

-----------------------------------------------------------------------------
(* Bounds *)

MaxRows == 3
MaxRuns == 2

-----------------------------------------------------------------------------
(* Characters *)

LowerLetters == <<"a","b","c","d","e","f","g","h","i","j","k","l","m",
                  "n","o","p","q","r","s","t","u","v","w","x","y","z">>
UpperLetters == <<"A","B","C","D","E","F","G","H","I","J","K","L","M",
                  "N","O","P","Q","R","S","T","U","V","W","X","Y","Z">>
DigitChars   == <<"0","1","2","3","4","5","6","7","8","9">>

Range(s) == {s[i] : i \in DOMAIN s}

IsLower(c) == c \in Range(LowerLetters)
IsUpper(c) == c \in Range(UpperLetters)
IsDigit(c) == c \in Range(DigitChars)
IsAsciiAlnum(c) == IsLower(c) \/ IsUpper(c) \/ IsDigit(c)

MIDDOT == "U+00B7"   \* the bullet the export decorates cells with (Po)
ACIRC  == "U+00C2"   \* capital A circumflex (Lu)
EACUTE == "U+00E9"   \* e with acute accent; NFKD gives "e" + U+0301
COMBINING_ACUTE == "U+0301"
STAR   == "U+2605"   \* black star (So)

\* CJK unified ideographs (U+4E00..U+9FFF) that occur in the literals and inputs
CJKChars == {"U+672A", "U+547D", "U+540D", "U+5E97", "U+5BB6",
             "U+8D0A", "U+52A9", "U+5546", "U+5EE3", "U+544A"}
IsCJK(c) == c \in CJKChars

\* the characters of the double-encoded literals of build_sites.py
MojibakeLetters == {"U+00E6", "U+0153", "U+00AA", "U+00E5", "U+00BD", "U+00BA", "U+0160"}
MojibakeOthers  == {"U+2018", "U+2014", "U+00AE", "U+00B6", "U+00BB", "U+00A3"}

NonAscii == CJKChars \cup MojibakeLetters \cup MojibakeOthers
              \cup {MIDDOT, ACIRC, EACUTE, COMBINING_ACUTE, STAR}
IsAscii(c) == c \notin NonAscii

\* str.isalnum() of one character
IsAlnum(c) == IsAsciiAlnum(c) \/ IsCJK(c) \/ c \in MojibakeLetters \/ c \in {ACIRC, EACUTE}
\* unicodedata.category(c).startswith("S")
IsSymbol(c) == c \in {STAR, "+", "$", "|", "~", "^", "=", "<", ">", "U+00AE", "U+00A3"}
\* str.isspace() of one character
IsSpace(c) == c \in {" ", "\t", "\n"}

ToLower(c) ==
  IF IsUpper(c)
    THEN LowerLetters[CHOOSE i \in DOMAIN UpperLetters : UpperLetters[i] = c]
    ELSE c

-----------------------------------------------------------------------------
(* Python's optional values: None is the empty tuple, a value v is <<v>> *)

None == <<>>
Some(v) == <<v>>
Val(o) == o[1]

-----------------------------------------------------------------------------
(* str methods *)

\* s[from:] of a Python sequence, from >= 0
SliceFrom(s, from) == IF from >= Len(s) THEN <<>> ELSE SubSeq(s, from + 1, Len(s))

\* str.lstrip(chars)
LStripChars(s, chars) ==
  LET keep == {i \in DOMAIN s : s[i] \notin chars}
  IN  IF keep = {} THEN <<>>
      ELSE SubSeq(s, CHOOSE i \in keep : \A j \in keep : i <= j, Len(s))

\* str.rstrip(chars)
RStripChars(s, chars) ==
  LET keep == {i \in DOMAIN s : s[i] \notin chars}
  IN  IF keep = {} THEN <<>>
      ELSE SubSeq(s, 1, CHOOSE i \in keep : \A j \in keep : i >= j)

\* str.strip(chars)
StripChars(s, chars) == RStripChars(LStripChars(s, chars), chars)

\* str.strip()
Strip(s) == StripChars(s, {" ", "\t", "\n"})

\* str.lower()
Lower(s) == [i \in DOMAIN s |-> ToLower(s[i])]

\* sub in s
Contains(s, sub) ==
  \E i \in 0..(Len(s) - Len(sub)) : SubSeq(s, i + 1, i + Len(sub)) = sub

\* s.startswith(pre)
StartsWith(s, pre) == Len(pre) <= Len(s) /\ SubSeq(s, 1, Len(pre)) = pre

\* s.replace(c, "") for a one-character c
RemoveChar(s, c) == SelectSeq(s, LAMBDA x : x /= c)

\* s.replace(sub, "") for a two-character sub: leftmost non-overlapping matches
RECURSIVE RemovePair(_, _)
RemovePair(s, sub) ==
  IF Len(s) < 2 THEN s
  ELSE IF SubSeq(s, 1, 2) = sub THEN RemovePair(SubSeq(s, 3, Len(s)), sub)
  ELSE <<s[1]>> \o RemovePair(Tail(s), sub)

\* str(n) for n >= 0
RECURSIVE Digits(_)
Digits(n) ==
  IF n < 10 THEN <<DigitChars[n + 1]>>
  ELSE Digits(n \div 10) \o <<DigitChars[(n % 10) + 1]>>

\* re.sub(r"[^<kept>]+", "-", s): every maximal run of characters outside the
\* kept class becomes one "-"
SubRuns(s, kept) ==
  LET starts == SelectSeq([i \in 1..Len(s) |-> i],
                          LAMBDA i : kept[i] \/ i = 1 \/ kept[i - 1])
  IN  [j \in 1..Len(starts) |-> IF kept[starts[j]] THEN s[starts[j]] ELSE "-"]

\* unicodedata.normalize("NFKD", s)
Decompose(c) == IF c = EACUTE THEN <<"e", COMBINING_ACUTE>> ELSE <<c>>
RECURSIVE NFKD(_)
NFKD(s) == IF s = <<>> THEN <<>> ELSE Decompose(Head(s)) \o NFKD(Tail(s))

\* s.encode("ascii", "ignore").decode("ascii")
AsciiOnly(s) == SelectSeq(s, IsAscii)

-----------------------------------------------------------------------------
(* Numbers *)

RECURSIVE DigitsValue(_)
DigitsValue(ds) ==
  IF ds = <<>> THEN 0
  ELSE 10 * DigitsValue(SubSeq(ds, 1, Len(ds) - 1))
         + ((CHOOSE i \in DOMAIN DigitChars : DigitChars[i] = ds[Len(ds)]) - 1)

AllDigits(s) == s /= <<>> /\ \A i \in DOMAIN s : IsDigit(s[i])

\* a finite float is mant / 10^scale, kept without trailing zeros
RECURSIVE Normalise(_, _)
Normalise(mant, scale) ==
  IF scale > 0 /\ mant % 10 = 0 THEN Normalise(mant \div 10, scale - 1)
  ELSE [kind |-> "finite", neg |-> FALSE, mant |-> mant, scale |-> scale]

\* float(s): Some(value), or None where Python raises ValueError.  Covers the
\* plain decimal syntax (whitespace, sign, digits, one point) and the special
\* values nan / inf / infinity; exponents and digit underscores are outside
\* the inputs enumerated here.
ParseFloat(s) ==
  LET t      == Strip(s)
      signed == t /= <<>> /\ t[1] \in {"+", "-"}
      body   == IF signed THEN Tail(t) ELSE t
      neg    == signed /\ t[1] = "-"
      word   == Lower(body)
      dots   == {i \in DOMAIN body : body[i] = "."}
      ip     == IF dots = {} THEN body ELSE SubSeq(body, 1, (CHOOSE i \in dots : TRUE) - 1)
      fp     == IF dots = {} THEN <<>>
                ELSE SubSeq(body, (CHOOSE i \in dots : TRUE) + 1, Len(body))
  IN  IF word = <<"n","a","n">>
        THEN Some([kind |-> "nan", neg |-> neg, mant |-> 0, scale |-> 0])
      ELSE IF word \in {<<"i","n","f">>, <<"i","n","f","i","n","i","t","y">>}
        THEN Some([kind |-> "inf", neg |-> neg, mant |-> 0, scale |-> 0])
      ELSE IF /\ Cardinality(dots) <= 1
              /\ ip \o fp /= <<>>
              /\ \A i \in DOMAIN (ip \o fp) : IsDigit((ip \o fp)[i])
        THEN Some([Normalise(DigitsValue(ip \o fp), Len(fp)) EXCEPT !.neg = neg])
      ELSE None

\* int(s): Some(value), or None where Python raises ValueError (whitespace,
\* sign, digits; digit underscores are outside the inputs enumerated here)
ParseInt(s) ==
  LET t      == Strip(s)
      signed == t /= <<>> /\ t[1] \in {"+", "-"}
      body   == IF signed THEN Tail(t) ELSE t
  IN  IF AllDigits(body)
        THEN Some(IF signed /\ t[1] = "-" THEN 0 - DigitsValue(body) ELSE DigitsValue(body))
        ELSE None

-----------------------------------------------------------------------------
(* generate_sites.py: parsing *)

\* the collision loop written as an if: one suffix is tried, never a second
G_probe_once(base, candidate, suffix, existing) ==
  IF candidate \in existing THEN base \o <<"-">> \o Digits(suffix) ELSE candidate

\* while candidate in existing: candidate = f"{base}-{suffix}"; suffix += 1
RECURSIVE G_probe(_, _, _, _)
G_probe(base, candidate, suffix, existing) ==
  IF candidate \in existing
    THEN G_probe(base, base \o <<"-">> \o Digits(suffix), suffix + 1, existing)
    ELSE candidate

G_base(name, fallback_index) ==
  LET normalized == NFKD(name)
      ascii_slug == Lower(StripChars(SubRuns(normalized, [i \in DOMAIN normalized |-> IsAsciiAlnum(normalized[i])]), {"-"}))
  IN  IF ascii_slug /= <<>> THEN ascii_slug
      ELSE <<"s","h","o","p","-">> \o Digits(fallback_index + 1)

G_slugify(name, fallback_index, existing) ==
  G_probe(G_base(name, fallback_index), G_base(name, fallback_index), 2, existing)

parse_rating(value) == ParseFloat(value)

\* parse_reviews without .strip("()")
parse_reviews_keeping_parens(value) ==
  IF value = <<>> THEN None
  ELSE ParseInt(RemoveChar(Strip(value), ","))

parse_reviews(value) ==
  IF value = <<>> THEN None
  ELSE ParseInt(RemoveChar(StripChars(Strip(value), {"(", ")"}), ","))

tidy(text) ==
  IF text = <<>> THEN None
  ELSE LET cleaned == Strip(LStripChars(Strip(text), {MIDDOT}))
       IN  IF cleaned = <<>> THEN None ELSE Some(cleaned)

G_AD_MARKER == <<"U+8D0A", "U+52A9", "U+5546", "U+5EE3", "U+544A">>

RECURSIVE G_collect(_, _, _)
G_collect(raw_values, highlights, sponsored) ==
  IF raw_values = <<>> THEN [highlights |-> highlights, sponsored |-> sponsored]
  ELSE LET cleaned == tidy(Head(raw_values))
       IN  IF cleaned = None \/ Val(cleaned) = <<MIDDOT>>
             THEN G_collect(Tail(raw_values), highlights, sponsored)
           ELSE IF Contains(Val(cleaned), G_AD_MARKER)
             THEN G_collect(Tail(raw_values), highlights, TRUE)
           ELSE IF Val(cleaned) \notin Range(highlights)
             THEN G_collect(Tail(raw_values), Append(highlights, Val(cleaned)), sponsored)
           ELSE G_collect(Tail(raw_values), highlights, sponsored)

collect_highlights(raw_values) == G_collect(raw_values, <<>>, FALSE)

G_UNNAMED == <<"U+672A", "U+547D", "U+540D", "U+5E97", "U+5BB6", "-">>

G_name(row, index) ==
  IF Len(row) > 1 /\ Strip(row[2]) /= <<>> THEN Strip(row[2])
  ELSE G_UNNAMED \o Digits(index + 1)

\* Shop(...) reads row[0] unguarded: IndexError on an empty row
G_raises(row) == Len(row) = 0

G_map_url(row) == IF tidy(row[1]) = None THEN <<"#">> ELSE Val(tidy(row[1]))

G_shop(row, index, existing) ==
  [ slug         |-> G_slugify(G_name(row, index), index, existing),
    name         |-> G_name(row, index),
    map_url      |-> G_map_url(row),
    rating       |-> IF Len(row) > 2 THEN parse_rating(row[3]) ELSE None,
    review_count |-> IF Len(row) > 3 THEN parse_reviews(row[4]) ELSE None,
    category     |-> IF Len(row) > 4 THEN tidy(row[5]) ELSE None,
    address      |-> IF Len(row) > 5 THEN tidy(row[6]) ELSE None,
    status       |-> IF Len(row) > 6 THEN tidy(row[7]) ELSE None,
    hours        |-> IF Len(row) > 7 THEN tidy(row[8]) ELSE None,
    phone        |-> IF Len(row) > 9 THEN tidy(row[10]) ELSE None,
    image_url    |-> IF Len(row) > 10 THEN tidy(row[11]) ELSE None,
    highlights   |-> collect_highlights(SliceFrom(row, 11)).highlights,
    sponsored    |-> collect_highlights(SliceFrom(row, 11)).sponsored ]

-----------------------------------------------------------------------------
(* build_sites.py: parsing *)

B_kept(c) == IsAsciiAlnum(c) \/ IsCJK(c)

B_slugify(name, fallback_index) ==
  LET base == StripChars(SubRuns(name, [i \in DOMAIN name |-> B_kept(name[i])]), {"-"})
  IN  IF base /= <<>> THEN base
      ELSE <<"b","u","s","i","n","e","s","s","-">> \o Digits(fallback_index)

\* while f"{slug}-{suffix}" in seen_slugs: suffix += 1
RECURSIVE B_probe(_, _, _)
B_probe(slug, suffix, seen_slugs) ==
  IF (slug \o <<"-">> \o Digits(suffix)) \in seen_slugs
    THEN B_probe(slug, suffix + 1, seen_slugs)
    ELSE slug \o <<"-">> \o Digits(suffix)

\* the suffix search started at 1 instead of 2
B_unique_from_one(slug, seen_slugs) ==
  IF slug \in seen_slugs THEN B_probe(slug, 1, seen_slugs) ELSE slug

B_unique(slug, seen_slugs) ==
  IF slug \in seen_slugs THEN B_probe(slug, 2, seen_slugs) ELSE slug

B_AD_MARKER == <<"U+00E5", "U+00BB", "U+00A3", "U+00E5", "U+2018", "U+0160">>

clean_feature(cell) ==
  LET text == Strip(StripChars(Strip(cell), {ACIRC, MIDDOT}))
  IN  IF text = <<>> THEN None
      ELSE IF StartsWith(text, <<"h","t","t","p">>) THEN None
      ELSE IF Contains(text, B_AD_MARKER) THEN None
      ELSE IF Len(text) <= 2 /\ \A i \in DOMAIN text : ~(IsAlnum(text[i]) \/ IsCJK(text[i]))
        THEN None
      ELSE IF \A i \in DOMAIN text : IsSymbol(text[i]) THEN None
      ELSE Some(text)

RECURSIVE B_features(_, _)
B_features(cells, features) ==
  IF cells = <<>> THEN features
  ELSE LET cleaned == clean_feature(Head(cells))
       IN  IF cleaned /= None /\ Val(cleaned) /= <<>> /\ Val(cleaned) \notin Range(features)
             THEN B_features(Tail(cells), Append(features, Val(cleaned)))
             ELSE B_features(Tail(cells), features)

B_UNNAMED == <<"U+00E6", "U+0153", "U+00AA", "U+00E5", "U+2018", "U+00BD", "U+00E5",
               "U+00E5", "U+00BA", "U+2014", "U+00E5", "U+00AE", "U+00B6", " ">>

B_name(row, idx) ==
  IF Strip(row[2]) /= <<>> THEN Strip(row[2]) ELSE B_UNNAMED \o Digits(idx)

\* if not row or len(row) < 10: continue
B_skips(row) == Len(row) < 10

\* Business(...) reads row[10] unguarded: IndexError on a row of 10 columns
B_raises(row) == ~B_skips(row) /\ Len(row) < 11

B_rating(row) == IF Strip(row[3]) /= <<>> THEN ParseFloat(row[3]) ELSE None

B_review_count(row) ==
  LET review_text == Strip(row[4])
      digits      == SelectSeq(review_text, IsDigit)
  IN  IF review_text /= <<>> /\ digits /= <<>> THEN Some(DigitsValue(digits)) ELSE None

OrNone(s) == IF s = <<>> THEN None ELSE Some(s)

B_business(row, idx, seen_slugs) ==
  [ slug         |-> B_unique(B_slugify(B_name(row, idx), idx), seen_slugs),
    name         |-> B_name(row, idx),
    map_url      |-> Strip(row[1]),
    rating       |-> B_rating(row),
    review_count |-> B_review_count(row),
    category     |-> Strip(row[5]),
    address      |-> Strip(row[6]),
    status       |-> OrNone(Strip(row[7])),
    hours        |-> OrNone(Strip(RemovePair(row[8], <<ACIRC, MIDDOT>>))),
    phone        |-> OrNone(Strip(row[10])),
    image_url    |-> OrNone(Strip(row[11])),
    features     |-> B_features(SliceFrom(row, 11), <<>>) ]

-----------------------------------------------------------------------------
(* scripts/generate_sites.py: parsing *)

\* The header row of the input file read by csv.DictReader: the columns in the
\* positional order the other two generators assume, column 8 holding a badge.
Header == <<"hfpxzc href", "qBF1Pd", "MW4etd", "UY7F9", "W4Efsd", "W4Efsd (3)",
            "W4Efsd (4)", "W4Efsd (5)", "ah5Ghc", "UsdlK", "FQ2IWe src", "LDHnMb",
            "c2ePGf", "c2ePGf (2)", "c2ePGf (3)", "W4Efsd (7)", "doJOZc">>

\* row.get(key) of the dict DictReader builds: None for a key the header lacks
\* and for a column the row is too short to hold (restval)
Get(row, key) ==
  LET at == {i \in DOMAIN Header : Header[i] = key}
  IN  IF at = {} THEN None
      ELSE LET i == CHOOSE i \in at : TRUE
           IN  IF i > Len(row) THEN None ELSE Some(row[i])

\* _clean of an optional cell
S_clean(value) ==
  IF value = None \/ Val(value) = <<>> THEN <<>>
  ELSE Strip(RemoveChar(Val(value), MIDDOT))

RECURSIVE S_collect(_, _)
S_collect(row, keys) ==
  IF keys = <<>> THEN <<>>
  ELSE LET cleaned == S_clean(Get(row, Head(keys)))
       IN  IF cleaned /= <<>> THEN <<cleaned>> \o S_collect(row, Tail(keys))
           ELSE S_collect(row, Tail(keys))

RECURSIVE S_probe(_, _, _, _)
S_probe(base, candidate, suffix, existing) ==
  IF candidate \in existing
    THEN S_probe(base, base \o <<"-">> \o Digits(suffix), suffix + 1, existing)
    ELSE candidate

S_kept(c) == IsLower(c) \/ IsDigit(c)

S_base(name, fallback) ==
  LET normalized == NFKD(name)
      ascii_name == AsciiOnly(normalized)
      lowered    == Lower(ascii_name)
      slug       == StripChars(SubRuns(lowered, [i \in DOMAIN lowered |-> S_kept(lowered[i])]),
                               {"-"})
  IN  IF slug /= <<>> THEN slug ELSE fallback

S_slugify(name, existing, fallback) ==
  S_probe(S_base(name, fallback), S_base(name, fallback), 2, existing)

S_UNNAMED == <<"U+672A", "U+547D", "U+540D", "U+5E97", "U+5BB6", " ">>

\* csv.DictReader does not yield a row without any column
S_reader_skips(row) == Len(row) = 0

\* row.get("qBF1Pd", "") is None when the row is too short to hold the name
\* column, and None.strip() raises AttributeError
S_raises(row) == Get(row, "qBF1Pd") = None

S_name(row, index) ==
  IF Strip(Val(Get(row, "qBF1Pd"))) /= <<>> THEN Strip(Val(Get(row, "qBF1Pd")))
  ELSE S_UNNAMED \o Digits(index)

S_BADGE_KEYS == <<"ah5Ghc", "M4A5Cf", "ah5Ghc (2)", "M4A5Cf (2)", "ah5Ghc (3)">>
S_HIGHLIGHT_KEYS == <<"LDHnMb", "c2ePGf", "c2ePGf (2)", "c2ePGf (3)", "W4Efsd (7)", "doJOZc">>

S_store(row, index, existing) ==
  [ slug       |-> S_slugify(S_name(row, index), existing,
                             <<"s","t","o","r","e","-">> \o Digits(index)),
    name       |-> S_name(row, index),
    map_url    |-> OrNone(S_clean(Get(row, "hfpxzc href"))),
    rating     |-> OrNone(S_clean(Get(row, "MW4etd"))),
    reviews    |-> StripChars(S_clean(Get(row, "UY7F9")), {"(", ")"}),
    category   |-> OrNone(S_clean(Get(row, "W4Efsd"))),
    address    |-> OrNone(S_clean(Get(row, "W4Efsd (3)"))),
    status     |-> OrNone(S_clean(Get(row, "W4Efsd (4)"))),
    hours      |-> OrNone(S_clean(Get(row, "W4Efsd (5)"))),
    phone      |-> OrNone(S_clean(Get(row, "UsdlK"))),
    image_url  |-> OrNone(S_clean(Get(row, "FQ2IWe src"))),
    badges     |-> S_collect(row, S_BADGE_KEYS),
    highlights |-> S_collect(row, S_HIGHLIGHT_KEYS),
    ad_link    |-> OrNone(S_clean(Get(row, "bm892c href"))) ]

-----------------------------------------------------------------------------
(* Markup.  A page is a sequence of blocks (the head of an index page and its
   cards; the one block of a detail page); a block is the sequence of the
   template's interpolations in template order.  An interpolation records the
   construct it sits in (role), whether it is element text or an attribute
   (attr), and the exact text inserted (val).  A fixed text of a template is
   one token naming it. *)

El(role, attr, val) == [role |-> role, attr |-> attr, val |-> val]

\* html.escape(s, quote=True)
EscapeChar(c) ==
  CASE c = "&"  -> "&amp;"
    [] c = "<"  -> "&lt;"
    [] c = ">"  -> "&gt;"
    [] c = "\"" -> "&quot;"
    [] c = "'"  -> "&#x27;"
    [] OTHER    -> c

Escape(s) == [i \in DOMAIN s |-> EscapeChar(s[i])]

\* truthiness of an optional text
Truthy(o) == o /= None /\ Val(o) /= <<>>
\* o or default
OrElse(o, default) == IF Truthy(o) THEN Val(o) ELSE default

\* a slice without its limit: all of s
TakeAll(s, n) == s

Take(s, n) == IF Len(s) <= n THEN s ELSE SubSeq(s, 1, n)

\* str(n) of any integer
IntText(n) == IF n < 0 THEN <<"-">> \o Digits(0 - n) ELSE Digits(n)

\* round(x) of a finite float: to the nearest integer, ties to the even one
RoundHalfEven(mant, scale) ==
  LET RECURSIVE Pow10(_)
      Pow10(k) == IF k = 0 THEN 1 ELSE 10 * Pow10(k - 1)
      unit == Pow10(scale)
      q    == mant \div unit
      r    == mant % unit
  IN  IF 2 * r < unit THEN q
      ELSE IF 2 * r > unit THEN q + 1
      ELSE IF q % 2 = 0 THEN q ELSE q + 1

\* f"{x:.1f}"; exact for the values with at most one fractional digit, which
\* are the finite values the enumerated inputs produce
FormatFloat1(x) ==
  LET tenths == IF x.scale = 0 THEN 10 * x.mant
                ELSE IF x.scale = 1 THEN x.mant
                ELSE RoundHalfEven(x.mant, x.scale - 1)
      sign   == IF x.neg THEN <<"-">> ELSE <<>>
  IN  IF x.kind = "nan" THEN <<"n","a","n">>
      ELSE IF x.kind = "inf" THEN sign \o <<"i","n","f">>
      ELSE sign \o Digits(tenths \div 10) \o <<".">> \o Digits(tenths % 10)

-----------------------------------------------------------------------------
(* generate_sites.py: rendering *)

PLACEHOLDER_IMAGE == <<"https://placehold.co/800x500?text=Plumbing+Service">>

render_badges(shop) ==
     (IF Truthy(shop.category) THEN <<El("badge", "text", Escape(Val(shop.category)))>> ELSE <<>>)
  \o (IF Truthy(shop.status) THEN <<El("badge", "text", Escape(Val(shop.status)))>> ELSE <<>>)
  \o (IF Truthy(shop.hours) THEN <<El("badge", "text", Escape(Val(shop.hours)))>> ELSE <<>>)
  \o (IF shop.sponsored THEN <<El("badge", "text", <<"G:sponsored">>)>> ELSE <<>>)

\* limit is None or Some(n)
render_tags(shop, limit) ==
  LET tags == IF limit = None THEN shop.highlights ELSE Take(shop.highlights, Val(limit))
  IN  [i \in DOMAIN tags |-> El("tag", "text", Escape(tags[i]))]

G_rating_text(shop) ==
  IF shop.rating /= None THEN <<"U+2B50", " ">> \o FormatFloat1(Val(shop.rating))
  ELSE <<"G:no-rating">>

G_reviews_text(shop) ==
  IF shop.review_count /= None THEN IntText(Val(shop.review_count)) \o <<" ", "G:reviews">>
  ELSE <<"G:reviews-unknown">>

G_render_card(shop) ==
     << El("image", "src", Escape(OrElse(shop.image_url, PLACEHOLDER_IMAGE))),
        El("image", "alt", Escape(shop.name)),
        El("name", "text", Escape(shop.name)),
        El("rating", "text", G_rating_text(shop)),
        El("reviews", "text", G_reviews_text(shop)),
        El("address", "text", Escape(OrElse(shop.address, <<"G:no-address">>))) >>
  \o render_badges(shop)
  \o render_tags(shop, Some(3))
  \o << El("detail_link", "href", <<"shops", "/">> \o shop.slug \o <<"/", "index.html">>),
        El("map_link", "href", Escape(shop.map_url)),
        El("phone", "text", IF Truthy(shop.phone) THEN Escape(Val(shop.phone))
                            ELSE <<"G:no-phone">>) >>

G_index_page(shop_list) ==
  << << El("stylesheet", "href", <<"assets", "/", "styles.css">>),
        El("count", "text", Digits(Len(shop_list))) >> >>
  \o [i \in DOMAIN shop_list |-> G_render_card(shop_list[i])]

G_shop_page(shop) ==
  << (   << El("title", "text", Escape(shop.name)),
            El("stylesheet", "href", <<"..", "/", "assets", "/", "styles.css">>),
            El("name", "text", Escape(shop.name)),
            El("address", "text", Escape(OrElse(shop.address, <<"G:no-address-data">>))),
            El("rating", "text", G_rating_text(shop)),
            El("reviews", "text", G_reviews_text(shop)) >>
      \o (IF Truthy(shop.category)
            THEN <<El("category", "text", Escape(Val(shop.category)))>> ELSE <<>>)
      \o << El("image", "src", Escape(OrElse(shop.image_url, PLACEHOLDER_IMAGE))),
            El("image", "alt", Escape(shop.name)),
            El("name", "text", Escape(shop.name)),
            El("status", "text", Escape(OrElse(shop.status, <<"G:no-status">>))) >>
      \o render_badges(shop)
      \o << El("address", "text", Escape(OrElse(shop.address, <<"G:no-address-short">>))),
            El("phone", "text", IF Truthy(shop.phone) THEN Escape(Val(shop.phone))
                                ELSE <<"G:no-phone-info">>),
            El("map_link", "href", Escape(shop.map_url)) >>
      \o (IF Truthy(shop.phone)
            THEN <<El("tel_link", "href", <<"tel:">> \o Val(shop.phone))>> ELSE <<>>)
      \o << El("map_link", "href", Escape(shop.map_url)) >>
      \o (IF render_tags(shop, None) /= <<>> THEN render_tags(shop, None)
          ELSE <<El("no_tags", "text", <<"G:no-highlights">>)>>)
      \o << El("back_link", "href", <<"..", "/", "index.html">>) >> ) >>

-----------------------------------------------------------------------------
(* Ordering of texts: Python compares strings by code point *)

CodeOrder == <<"\t", "\n", " ", "!", "\"", "#", "$", "&", "'", "(", ")", "+", ",", "-", ".",
               "/", "0", "1", "2", "3", "4", "5", "6", "7", "8", "9", ":", "<", "=", ">",
               "?", "A", "B", "C", "D", "E", "F", "G", "H", "I", "J", "K", "L", "M", "N",
               "O", "P", "Q", "R", "S", "T", "U", "V", "W", "X", "Y", "Z", "^", "_",
               "a", "b", "c", "d", "e", "f", "g", "h", "i", "j", "k", "l", "m", "n", "o",
               "p", "q", "r", "s", "t", "u", "v", "w", "x", "y", "z", "|", "~",
               "U+00A3", "U+00AA", "U+00AE", "U+00B6", "U+00B7", "U+00BA", "U+00BB",
               "U+00BD", "U+00C2", "U+00E5", "U+00E6", "U+00E9", "U+0153", "U+0160",
               "U+0301", "U+2014", "U+2018", "U+2605", "U+5206", "U+52A9", "U+540D",
               "U+544A", "U+547D", "U+5546", "U+5BB6", "U+5E97", "U+5EE3", "U+672A",
               "U+8D0A">>

Rank(c) == CHOOSE i \in DOMAIN CodeOrder : CodeOrder[i] = c

\* a < b for two texts
Less(a, b) ==
  LET n    == IF Len(a) < Len(b) THEN Len(a) ELSE Len(b)
      diff == {i \in 1..n : a[i] /= b[i]}
  IN  IF diff = {} THEN Len(a) < Len(b)
      ELSE LET k == CHOOSE i \in diff : \A j \in diff : i <= j
           IN  Rank(a[k]) < Rank(b[k])

\* The orders in which Python may iterate over a set of texts: the hashes of
\* str are salted per process, so every order can come up.
IterationOrders(S) ==
  {seq \in [1..Cardinality(S) -> S] : \A i, j \in DOMAIN seq : i /= j => seq[i] /= seq[j]}

\* list(iterable) without sorting: the elements in iteration order
Unsorted(iterated) == iterated

\* sorted(iterable): the elements met in the order `iterated`, in ascending order
RECURSIVE Sorted(_)
Sorted(iterated) ==
  IF iterated = <<>> THEN <<>>
  ELSE LET rest   == Sorted(Tail(iterated))
           before == SelectSeq(rest, LAMBDA y : Less(y, Head(iterated)))
           after  == SelectSeq(rest, LAMBDA y : ~Less(y, Head(iterated)))
       IN  before \o <<Head(iterated)>> \o after

\* sep.join(texts)
RECURSIVE Join(_, _)
Join(texts, sep) ==
  IF texts = <<>> THEN <<>>
  ELSE IF Len(texts) = 1 THEN texts[1]
  ELSE texts[1] \o sep \o Join(Tail(texts), sep)

-----------------------------------------------------------------------------
(* build_sites.py: rendering *)

B_OPEN_MARKER == <<"U+00E7", "U+2021", "U+0178", "U+00E6", "U+00A5", "U+00AD">>

status_class(b) ==
  IF ~Truthy(b.status) THEN <<"neutral">>
  ELSE IF Contains(Val(b.status), <<"2", "4">>) THEN <<"open-24">>
  ELSE IF Contains(Val(b.status), B_OPEN_MARKER) THEN <<>>
  ELSE <<"neutral">>

\* round(nan) raises ValueError, round(inf) raises OverflowError
B_rating_raises(b) == b.rating /= None /\ Val(b.rating).kind /= "finite"

\* formatted_rating treating an absent rating as the number zero
formatted_rating_as_zero(b) ==
  IF b.rating = None THEN <<"0", ".", "0">>
  ELSE Strip(FormatFloat1(Val(b.rating)))

formatted_rating(b) ==
  IF b.rating = None THEN <<"-", "-">>
  ELSE LET x       == Val(b.rating)
           rounded == IF x.neg THEN 0 - RoundHalfEven(x.mant, x.scale)
                      ELSE RoundHalfEven(x.mant, x.scale)
           stars   == [i \in 1..rounded |-> "B:star"]
           reviews == IF b.review_count /= None /\ Val(b.review_count) /= 0
                        THEN <<"B:(">> \o IntText(Val(b.review_count)) \o <<" ", "B:reviews)">>
                        ELSE <<>>
       IN  Strip(FormatFloat1(x) \o <<" ">> \o stars \o <<" ">> \o reviews)

B_PLACEHOLDER_CARD   == <<"https://via.placeholder.com/400x250?text=Plumbing">>
B_PLACEHOLDER_DETAIL == <<"https://via.placeholder.com/800x450?text=Plumbing">>

B_render_card(b) ==
     << El("card", "data-name", Escape(b.name)),
        El("card", "data-category", Escape(b.category)),
        El("card", "data-address", Escape(b.address)),
        El("card", "data-features", Escape(Join(b.features, <<" ">>))),
        El("card", "data-status", Escape(OrElse(b.status, <<>>))),
        El("image", "src", Escape(OrElse(b.image_url, B_PLACEHOLDER_CARD))),
        El("image", "alt", Escape(b.name)),
        El("status", "class", status_class(b)),
        El("status", "text", Escape(OrElse(b.status, <<"B:no-status">>))),
        El("rating", "text", Escape(formatted_rating(b))),
        El("name", "text", Escape(b.name)),
        El("category", "text", Escape(b.category)),
        El("address", "text", Escape(b.address)) >>
  \o [i \in DOMAIN Take(b.features, 4) |-> El("chip", "text", Escape(b.features[i]))]
  \o << El("detail_link", "href",
           <<".", "/", "businesses", "/">> \o b.slug \o <<"/", "index.html">>),
        El("map_link", "href", Escape(b.map_url)) >>
  \o (IF Truthy(b.phone)
        THEN <<El("tel_link", "href", <<"tel:">> \o Escape(Val(b.phone)))>> ELSE <<>>)

B_options(values) ==
  [i \in 1..(2 * Len(values)) |->
     IF i % 2 = 1 THEN El("option", "value", Escape(values[(i + 1) \div 2]))
     ELSE El("option", "text", Escape(values[i \div 2]))]

\* the categories of all listings, the one without category included
B_all_categories(businesses) == {businesses[i].category : i \in DOMAIN businesses}

\* the two sets build_index_page builds and then iterates over
B_categories(businesses) ==
  {businesses[i].category : i \in {j \in DOMAIN businesses : businesses[j].category /= <<>>}}
B_statuses(businesses) ==
  {Val(businesses[i].status) : i \in {j \in DOMAIN businesses : Truthy(businesses[j].status)}}

\* the iteration orders of the two sets that one process may meet
B_set_orders(businesses) ==
  [categories : IterationOrders(B_categories(businesses)),
   statuses   : IterationOrders(B_statuses(businesses))]

\* iter: the order in which this process iterates over each of the two sets
B_index_page(businesses, iter) ==
  LET categories == Sorted(iter.categories)
      statuses   == Sorted(iter.statuses)
  IN  << (   << El("stylesheet", "href", <<".", "/", "assets", "/", "style.css">>),
                El("count", "text", Digits(Len(businesses))),
                El("count", "text", Digits(Len(businesses))) >>
          \o [i \in DOMAIN B_options(statuses) |->
                [B_options(statuses)[i] EXCEPT !.role = "status_option"]]
          \o [i \in DOMAIN B_options(categories) |->
                [B_options(categories)[i] EXCEPT !.role = "category_option"]]
          \o << El("script", "src", <<".", "/", "assets", "/", "main.js">>) >> ) >>
      \o [i \in DOMAIN businesses |-> B_render_card(businesses[i])]

B_detail_page(b) ==
  LET features      == IF b.features /= <<>> THEN b.features ELSE << <<"B:no-features">> >>
      feature_items == [i \in DOMAIN features |-> El("chip", "text", Escape(features[i]))]
      phone_row     == IF Truthy(b.phone)
                         THEN << El("tel_link", "href", <<"tel:">> \o Escape(Val(b.phone))),
                                 El("tel_link", "text", Escape(Val(b.phone))) >>
                         ELSE << El("phone", "text", <<"B:no-phone">>) >>
  IN  << (   << El("title", "text", Escape(b.name)),
                El("stylesheet", "href", <<"..", "/", "..", "/", "assets", "/", "style.css">>),
                El("back_link", "href", <<"..", "/", "..", "/", "index.html">>),
                El("image", "src", Escape(OrElse(b.image_url, B_PLACEHOLDER_DETAIL))),
                El("image", "alt", Escape(b.name)),
                El("status", "class", status_class(b)),
                El("status", "text", Escape(OrElse(b.status, <<"B:no-status">>))),
                El("name", "text", Escape(b.name)),
                El("category", "text", Escape(b.category)),
                El("rating", "text", Escape(formatted_rating(b))) >>
          \o feature_items
          \o << El("map_link", "href", Escape(b.map_url)) >>
          \o (IF Truthy(b.phone)
                THEN <<El("tel_link", "href", <<"tel:">> \o Escape(Val(b.phone)))>> ELSE <<>>)
          \o << El("address", "text", Escape(b.address)) >>
          \o phone_row
          \o << El("hours", "text", Escape(OrElse(b.hours, <<"B:no-hours">>))),
                El("map_link", "href", Escape(b.map_url)) >>
          \o feature_items ) >>

-----------------------------------------------------------------------------
(* scripts/generate_sites.py: rendering *)

\* the map anchor of a card or of a store page, present only for a map URL
S_map_anchor(store) ==
  IF Truthy(store.map_url)
    THEN <<El("map_link", "href", Escape(Val(store.map_url)))>> ELSE <<>>

S_ad_anchor(store) ==
  IF Truthy(store.ad_link)
    THEN <<El("ad_link", "href", Escape(Val(store.ad_link)))>> ELSE <<>>

S_render_card(store) ==
     << El("card", "data-name", Escape(store.name)),
        El("card", "data-category", Escape(OrElse(store.category, <<>>))),
        El("card", "data-address", Escape(OrElse(store.address, <<>>))),
        El("image", "style-url", Escape(OrElse(store.image_url, <<>>))),
        El("name", "text", Escape(store.name)),
        El("category", "text", Escape(OrElse(store.category, <<"S:no-category">>))),
        El("rating", "text", Escape(OrElse(store.rating, <<"S:no-rating">>))),
        El("reviews", "text", Escape(IF store.reviews /= <<>> THEN store.reviews ELSE <<"0">>)),
        El("address", "text", Escape(OrElse(store.address, <<"S:no-address">>))),
        El("status", "text", Escape(OrElse(store.status, <<"S:no-status">>))),
        El("hours", "text", Escape(OrElse(store.hours, <<>>))),
        El("detail_link", "href", <<"stores", "/">> \o store.slug \o <<".html">>) >>
  \o S_map_anchor(store)

S_index_page(stores) ==
  << << El("stylesheet", "href", <<"assets", "/", "styles.css">>),
        El("count", "text", Digits(Len(stores))) >> >>
  \o [i \in DOMAIN stores |-> S_render_card(stores[i])]

S_store_page(store) ==
  << (   << El("title", "text", Escape(store.name)),
            El("stylesheet", "href", <<"..", "/", "assets", "/", "styles.css">>),
            El("back_link", "href", <<"..", "/", "index.html">>),
            El("image", "style-url", Escape(OrElse(store.image_url, <<>>))),
            El("category", "text", Escape(OrElse(store.category, <<"S:no-category">>))),
            El("name", "text", Escape(store.name)),
            El("address", "text", Escape(OrElse(store.address, <<"S:no-address">>))),
            El("rating", "text", Escape(OrElse(store.rating, <<"S:no-rating">>))),
            El("reviews", "text",
               Escape(IF store.reviews /= <<>> THEN store.reviews ELSE <<"0">>)),
            El("status", "text", Escape(OrElse(store.status, <<"S:no-status">>))),
            El("hours", "text", Escape(OrElse(store.hours, <<>>))) >>
      \o (IF Truthy(store.phone)
            THEN << El("tel_link", "href", <<"tel:">> \o Escape(Val(store.phone))),
                    El("tel_link", "text", Escape(Val(store.phone))) >>
            ELSE <<>>)
      \o S_map_anchor(store)
      \o S_ad_anchor(store)
      \o [i \in DOMAIN store.badges |-> El("badge", "text", Escape(store.badges[i]))]
      \o (IF store.highlights /= <<>>
            THEN [i \in DOMAIN store.highlights |->
                    El("highlight", "text", Escape(store.highlights[i]))]
            ELSE <<El("no_highlights", "text", <<"S:no-highlights">>)>>)
      \o << El("phone", "text", Escape(OrElse(store.phone, <<"S:not-provided">>))),
            El("address", "text", Escape(OrElse(store.address, <<"S:no-address">>))) >>
      \o (IF Truthy(store.map_url) THEN S_map_anchor(store)
          ELSE <<El("map", "text", <<"S:not-provided">>)>>)
      \o (IF Truthy(store.ad_link) THEN S_ad_anchor(store)
          ELSE <<El("ad", "text", <<"S:not-provided">>)>>) ) >>

-----------------------------------------------------------------------------
(* The output tree.  A path is a sequence of segments, each a text; the tree
   maps the paths that exist to a directory or to a file with its content. *)

Seg(name) == <<name>>

DirEntry == [kind |-> "dir", body |-> <<>>]
FileEntry(body) == [kind |-> "file", body |-> body]

EmptyTree == [p \in {} |-> DirEntry]

\* Path.mkdir(parents=True, exist_ok=True)
Mkdir(tree, path) ==
  LET made == {SubSeq(path, 1, n) : n \in 1..Len(path)} \ DOMAIN tree
  IN  [p \in DOMAIN tree \cup made |-> IF p \in made THEN DirEntry ELSE tree[p]]

\* Path.write_text(body)
WriteText(tree, path, body) ==
  [p \in DOMAIN tree \cup {path} |-> IF p = path THEN FileEntry(body) ELSE tree[p]]

\* shutil.rmtree(root)
RmTree(tree, root) ==
  LET kept == {p \in DOMAIN tree : ~(Len(p) >= Len(root) /\ SubSeq(p, 1, Len(root)) = root)}
  IN  [p \in kept |-> tree[p]]

DOCS_DIR == <<Seg("docs")>>

G_ASSETS_DIR == DOCS_DIR \o <<Seg("assets")>>
SHOPS_DIR    == DOCS_DIR \o <<Seg("shops")>>

ensure_dirs(tree) == Mkdir(Mkdir(tree, G_ASSETS_DIR), SHOPS_DIR)

write_stylesheet(tree) ==
  WriteText(Mkdir(tree, G_ASSETS_DIR), G_ASSETS_DIR \o <<Seg("styles.css")>>,
            << <<El("asset", "text", <<"G:styles">>)>> >>)

write_index(tree, shop_list) ==
  WriteText(Mkdir(tree, DOCS_DIR), DOCS_DIR \o <<Seg("index.html")>>, G_index_page(shop_list))

write_shop_page(tree, shop) ==
  WriteText(Mkdir(tree, SHOPS_DIR \o <<shop.slug>>),
            SHOPS_DIR \o <<shop.slug, Seg("index.html")>>, G_shop_page(shop))

RECURSIVE G_write_shop_pages(_, _)
G_write_shop_pages(tree, shop_list) ==
  IF shop_list = <<>> THEN tree
  ELSE G_write_shop_pages(write_shop_page(tree, Head(shop_list)), Tail(shop_list))

\* main() of generate_sites.py after build_shops()
G_main_write(tree, shop_list) ==
  G_write_shop_pages(write_index(write_stylesheet(ensure_dirs(tree)), shop_list), shop_list)

B_ASSETS_DIR == DOCS_DIR \o <<Seg("assets")>>
BUSINESS_DIR == DOCS_DIR \o <<Seg("businesses")>>

reset_docs_directory(tree) ==
  Mkdir(Mkdir(RmTree(tree, DOCS_DIR), BUSINESS_DIR), B_ASSETS_DIR)

write_assets(tree) ==
  WriteText(WriteText(tree, B_ASSETS_DIR \o <<Seg("style.css")>>,
                      << <<El("asset", "text", <<"B:STYLE_CONTENT">>)>> >>),
            B_ASSETS_DIR \o <<Seg("main.js")>>,
            << <<El("asset", "text", <<"B:SCRIPT_CONTENT">>)>> >>)

build_detail_page(tree, b) ==
  WriteText(Mkdir(tree, BUSINESS_DIR \o <<b.slug>>),
            BUSINESS_DIR \o <<b.slug, Seg("index.html")>>, B_detail_page(b))

build_index_page(tree, businesses, iter) ==
  WriteText(tree, DOCS_DIR \o <<Seg("index.html")>>, B_index_page(businesses, iter))

\* the detail pages in order, up to the first business whose rating text raises;
\* then the index page, which renders every card
RECURSIVE B_write_pages(_, _, _, _)
B_write_pages(tree, todo, businesses, iter) ==
  IF todo = <<>>
    THEN [tree |-> build_index_page(tree, businesses, iter), ok |-> TRUE, error |-> "none"]
  ELSE IF B_rating_raises(Head(todo))
    THEN [tree |-> tree, ok |-> FALSE,
          error |-> IF Val(Head(todo).rating).kind = "nan" THEN "ValueError"
                    ELSE "OverflowError"]
  ELSE B_write_pages(build_detail_page(tree, Head(todo)), Tail(todo), businesses, iter)

\* main() of build_sites.py after parse_businesses()
B_main_write(tree, businesses, iter) ==
  B_write_pages(write_assets(reset_docs_directory(tree)), businesses, businesses, iter)

\* _write_file(path, content)
S_write_file(tree, path, content) ==
  WriteText(Mkdir(tree, SubSeq(path, 1, Len(path) - 1)), path, content)

RECURSIVE S_write_store_pages(_, _)
S_write_store_pages(tree, stores) ==
  IF stores = <<>> THEN tree
  ELSE S_write_store_pages(
         S_write_file(tree, DOCS_DIR \o <<Seg("stores"), Head(stores).slug \o <<".html">>>>,
                      S_store_page(Head(stores))),
         Tail(stores))

\* main() of scripts/generate_sites.py after _parse_stores()
S_main_write(tree, stores) ==
  S_write_store_pages(
    S_write_file(tree, DOCS_DIR \o <<Seg("index.html")>>, S_index_page(stores)), stores)

-----------------------------------------------------------------------------
(* Input files.  A data row is a sequence of cells, a cell is a text.  The
   rows of an input file are drawn from one family of rows. *)

Row(map, name, rating, reviews, phone, feats) ==
  <<map, name, rating, reviews, <<"c">>, <<"d">>, <<"o">>, <<"h">>, <<>>, phone, <<"i">>>>
    \o feats

Named(name) == Row(<<"m">>, name, <<"4">>, <<"7">>, <<"5">>, <<>>)

NameRows ==
  { Named(n) : n \in { <<"a">>, <<"A">>, <<"a", " ", "2">>, <<>>, <<" ", "'", "a", "-", "-", "b">>,
                       <<"U+5E97">>, <<"s", "h", "o", "p", " ", "2">>, <<EACUTE, "a">> } }

RenderRows ==
  { Row(map, <<"a">>, <<"4">>, <<"7">>, phone, <<>>) :
      map \in {<<>>, <<"m">>}, phone \in {<<>>, <<"5">>, <<"\"", "<">>} }
  \cup { Row(<<"m", "&">>, <<"<", "b", ">">>, <<"4">>, <<"7">>, <<"5">>, << <<"'", "x">> >>) }

FeatureCells ==
  { <<MIDDOT>>, <<MIDDOT, " ", MIDDOT, " ", MIDDOT>>, <<" ", MIDDOT, " ">>, <<"-">>,
    <<"-", "-", "-">>, <<"!", "!">>, <<STAR, STAR, STAR>>, <<"x">>,
    <<"h", "t", "t", "p", "x">>, G_AD_MARKER }

FeatureRows ==
  { Row(<<"m">>, <<"a">>, <<"4">>, <<"7">>, <<"5">>, <<cell>>) : cell \in FeatureCells }
  \cup { Row(<<"m">>, <<"a">>, <<"4">>, <<"7">>, <<"5">>, << <<"x">>, <<"y">>, <<MIDDOT, "x">> >>),
         Row(<<"m">>, <<"a">>, <<"4">>, <<"7">>, <<"5">>,
             << <<"x">>, <<"y">>, <<"z">>, <<"w">>, <<"v">> >>) }

FullRow == Row(<<"m">>, <<"a">>, <<"4">>, <<"7">>, <<"5">>, << <<"x">> >>)

ShortRows == { SubSeq(FullRow, 1, n) : n \in {0, 1, 2, 4, 9, 10, 11, 12} }

RatingRows ==
  { Row(<<"m">>, <<"a">>, rating, <<"7">>, <<"5">>, <<>>) :
      rating \in {<<>>, <<"4", ".", "5">>, <<"x">>, <<"n", "a", "n">>} }

ReviewRows ==
  { Row(<<"m">>, <<"a">>, <<"4">>, reviews, <<"5">>, <<>>) :
      reviews \in { <<>>, <<"(", "1", "2", ")">>, <<"1", ",", "2", "3", "4">>,
                    <<"1", "2", " ", "r">>, <<"-", "5">>, <<"x">> } }

\* blank and missing name cells among lines without any column
OrdinalRows ==
  { <<>>, SubSeq(FullRow, 1, 1), Named(<<>>), Named(<<" ">>), Named(<<"a">>) }

ScenarioRow ==
  << <<"h","t","t","p",":","/","/","m","a","p","s","/","x">>,
     <<"J","o","e","'","s"," ","P","l","u","m","b","i","n","g">>,
     <<"4",".","5">>,
     <<"(","1","2","0",")">>,
     <<"P","l","u","m","b","i","n","g">>,
     <<"1"," ","M","a","i","n"," ","S","t">>,
     <<"O","p","e","n">>,
     <<"9","a","m","-","5","p","m">>,
     <<>>,
     <<"5","5","5","-","1","2","3","4">>,
     <<"h","t","t","p",":","/","/","i","m","g","/","x">>,
     <<MIDDOT>>,
     <<"D","r","a","i","n"," ","C","l","e","a","n","i","n","g">> >>

\* two rows of different names, categories and statuses
RerunRows ==
  { Named(<<"a">>), [Named(<<"b">>) EXCEPT ![5] = <<"b">>, ![7] = <<"n">>] }

\* categories and statuses that are blank, repeated, and out of order
OptionRows ==
  { Named(<<"a">>),
    [Named(<<"a">>) EXCEPT ![5] = <<"b">>, ![7] = <<"n">>],
    [Named(<<"a">>) EXCEPT ![5] = <<" ">>, ![7] = <<>>],
    [Named(<<"a">>) EXCEPT ![5] = <<"B">>, ![7] = <<" ", "n">>] }

Families == {"names", "render", "features", "short", "ratings", "reviews", "ordinal",
             "options", "scenario", "rerun"}

RowSet(f) ==
  CASE f = "names"    -> NameRows
    [] f = "render"   -> RenderRows
    [] f = "features" -> FeatureRows
    [] f = "short"    -> ShortRows
    [] f = "ratings"  -> RatingRows
    [] f = "reviews"  -> ReviewRows
    [] f = "ordinal"  -> OrdinalRows
    [] f = "options"  -> OptionRows
    [] f = "scenario" -> {ScenarioRow}
    [] f = "rerun"    -> RerunRows

\* only the "rerun" family runs a generator more than once
RunLimit(f) == IF f = "rerun" THEN MaxRuns ELSE 1

\* the families whose rows are read independently of one another, and the
\* family that is run several times, get input files one row shorter than
\* those whose rows interact through the slug set or the row count
RowLimit(f) ==
  IF f \in {"names", "ratings", "ordinal", "options", "scenario"} THEN MaxRows ELSE MaxRows - 1

-----------------------------------------------------------------------------
(* The state machine *)

Init ==
  /\ gen \in {"G", "B", "S"}
  /\ family \in Families
  /\ pc = "idle"
  /\ error = "none"
  /\ runs = 0
  /\ input = <<>>
  /\ consumed = 0
  /\ used_slugs = {}
  /\ shops = <<>>
  /\ origin = <<>>
  /\ fs = EmptyTree
  /\ printed = None

Fresh ==
  /\ runs' = runs + 1
  /\ input' = <<>>
  /\ consumed' = 0
  /\ used_slugs' = {}
  /\ shops' = <<>>
  /\ origin' = <<>>
  /\ printed' = None
  /\ UNCHANGED <<gen, family, fs>>

\* a run whose input file exists: the file is opened and the header consumed
StartRun ==
  /\ pc \in {"idle", "done", "failed"}
  /\ runs < RunLimit(family)
  /\ pc' = "parsing"
  /\ error' = "none"
  /\ Fresh

\* main() resetting the output directory before it opens the input file
MissingInput_after_reset ==
  /\ pc \in {"idle", "done", "failed"}
  /\ runs < RunLimit(family)
  /\ pc' = "failed"
  /\ error' = "FileNotFoundError"
  /\ runs' = runs + 1
  /\ input' = <<>>
  /\ consumed' = 0
  /\ used_slugs' = {}
  /\ shops' = <<>>
  /\ origin' = <<>>
  /\ printed' = None
  /\ fs' = reset_docs_directory(fs)
  /\ UNCHANGED <<gen, family>>

\* a run whose input file is missing: FileNotFoundError before anything else
MissingInput ==
  /\ pc \in {"idle", "done", "failed"}
  /\ runs < RunLimit(family)
  /\ pc' = "failed"
  /\ error' = "FileNotFoundError"
  /\ Fresh

\* one iteration of build_shops' loop
G_ReadRow ==
  /\ gen = "G" /\ pc = "parsing" /\ Len(input) < RowLimit(family)
  /\ \E row \in RowSet(family) :
       LET name == G_name(row, consumed)
           slug == G_slugify(name, consumed, used_slugs)
       IN  /\ input' = Append(input, row)
           /\ consumed' = consumed + 1
           /\ used_slugs' = used_slugs \cup {slug}
           /\ IF G_raises(row)
                THEN pc' = "failed" /\ error' = "IndexError" /\ UNCHANGED <<shops, origin>>
                ELSE /\ UNCHANGED <<pc, error>>
                     /\ shops' = Append(shops, G_shop(row, consumed, used_slugs))
                     /\ origin' = Append(origin, Len(input) + 1)
  /\ UNCHANGED <<gen, family, runs, fs, printed>>

\* parse_businesses' loop allocating a slug before it tests whether to skip
\* the row: a skipped row records its fallback slug
B_ReadRow_adding_on_skip ==
  /\ gen = "B" /\ pc = "parsing" /\ Len(input) < RowLimit(family)
  /\ \E row \in RowSet(family) :
       /\ input' = Append(input, row)
       /\ consumed' = consumed + 1
       /\ IF B_skips(row)
            THEN /\ used_slugs' = used_slugs \cup
                      {B_unique(B_slugify(<<>>, consumed + 1), used_slugs)}
                 /\ UNCHANGED <<pc, error, shops, origin>>
            ELSE /\ used_slugs' = used_slugs \cup
                      {B_unique(B_slugify(B_name(row, consumed + 1), consumed + 1), used_slugs)}
                 /\ IF B_raises(row)
                      THEN pc' = "failed" /\ error' = "IndexError" /\ UNCHANGED <<shops, origin>>
                      ELSE /\ UNCHANGED <<pc, error>>
                           /\ shops' = Append(shops, B_business(row, consumed + 1, used_slugs))
                           /\ origin' = Append(origin, Len(input) + 1)
  /\ UNCHANGED <<gen, family, runs, fs, printed>>

\* one iteration of parse_businesses' loop
B_ReadRow ==
  /\ gen = "B" /\ pc = "parsing" /\ Len(input) < RowLimit(family)
  /\ \E row \in RowSet(family) :
       /\ input' = Append(input, row)
       /\ consumed' = consumed + 1
       /\ IF B_skips(row)
            THEN UNCHANGED <<pc, error, used_slugs, shops, origin>>
            ELSE /\ used_slugs' = used_slugs \cup
                      {B_unique(B_slugify(B_name(row, consumed + 1), consumed + 1), used_slugs)}
                 /\ IF B_raises(row)
                      THEN pc' = "failed" /\ error' = "IndexError" /\ UNCHANGED <<shops, origin>>
                      ELSE /\ UNCHANGED <<pc, error>>
                           /\ shops' = Append(shops, B_business(row, consumed + 1, used_slugs))
                           /\ origin' = Append(origin, Len(input) + 1)
  /\ UNCHANGED <<gen, family, runs, fs, printed>>

\* one line of the file under csv.DictReader and _parse_stores' loop
S_ReadRow ==
  /\ gen = "S" /\ pc = "parsing" /\ Len(input) < RowLimit(family)
  /\ \E row \in RowSet(family) :
       /\ input' = Append(input, row)
       /\ IF S_reader_skips(row)
            THEN UNCHANGED <<pc, error, consumed, used_slugs, shops, origin>>
          ELSE IF S_raises(row)
            THEN /\ pc' = "failed"
                 /\ error' = "AttributeError"
                 /\ consumed' = consumed + 1
                 /\ UNCHANGED <<used_slugs, shops, origin>>
          ELSE /\ UNCHANGED <<pc, error>>
               /\ consumed' = consumed + 1
               /\ used_slugs' = used_slugs \cup {S_store(row, consumed + 1, used_slugs).slug}
               /\ shops' = Append(shops, S_store(row, consumed + 1, used_slugs))
               /\ origin' = Append(origin, Len(input) + 1)
  /\ UNCHANGED <<gen, family, runs, fs, printed>>

\* end of file in generate_sites.py: the rest of main()
G_Finish ==
  /\ gen = "G" /\ pc = "parsing"
  /\ fs' = G_main_write(fs, shops)
  /\ printed' = Some(Len(shops))
  /\ pc' = "done"
  /\ UNCHANGED <<gen, family, error, runs, input, consumed, used_slugs, shops, origin>>

\* end of file in build_sites.py: the rest of main()
B_Finish ==
  /\ gen = "B" /\ pc = "parsing"
  /\ \E iter \in B_set_orders(shops) :
       /\ fs' = B_main_write(fs, shops, iter).tree
       /\ IF B_main_write(fs, shops, iter).ok
            THEN printed' = Some(Len(shops)) /\ pc' = "done" /\ error' = error
            ELSE /\ printed' = None /\ pc' = "failed"
                 /\ error' = B_main_write(fs, shops, iter).error
  /\ UNCHANGED <<gen, family, runs, input, consumed, used_slugs, shops, origin>>

\* end of file in scripts/generate_sites.py: the rest of main()
S_Finish ==
  /\ gen = "S" /\ pc = "parsing"
  /\ fs' = S_main_write(fs, shops)
  /\ printed' = Some(Len(shops))
  /\ pc' = "done"
  /\ UNCHANGED <<gen, family, error, runs, input, consumed, used_slugs, shops, origin>>

Next ==
  \/ StartRun
  \/ MissingInput
  \/ G_ReadRow
  \/ B_ReadRow
  \/ S_ReadRow
  \/ G_Finish
  \/ B_Finish
  \/ S_Finish

Spec == Init /\ [][Next]_vars

-----------------------------------------------------------------------------
(* Views of the state used by the properties *)

Features(l) == IF gen = "B" THEN l.features ELSE l.highlights

\* the base slug of the i-th listing: the slug of its name before collisions
BaseOf(i) ==
  CASE gen = "G" -> G_base(shops[i].name, i - 1)
    [] gen = "B" -> B_slugify(shops[i].name, origin[i])
    [] gen = "S" -> S_base(shops[i].name, <<"s","t","o","r","e","-">> \o Digits(i))

\* the slugs allocated before the i-th listing's
Earlier(i) == {shops[j].slug : j \in 1..(i - 1)}

Suffixed(base, k) == base \o <<"-">> \o Digits(k)

IndexPath == DOCS_DIR \o <<Seg("index.html")>>

DetailPath(slug) ==
  CASE gen = "G" -> SHOPS_DIR \o <<slug, Seg("index.html")>>
    [] gen = "B" -> BUSINESS_DIR \o <<slug, Seg("index.html")>>
    [] gen = "S" -> DOCS_DIR \o <<Seg("stores"), slug \o <<".html">>>>

\* what main() writes into an empty output directory for these listings
FromScratch(listings) ==
  CASE gen = "G" -> G_main_write(EmptyTree, listings)
    [] gen = "B" -> B_main_write(EmptyTree, listings,
                                 CHOOSE iter \in B_set_orders(listings) : TRUE).tree
    [] gen = "S" -> S_main_write(EmptyTree, listings)

\* every interpolation of every page of the output tree
Interpolations ==
  UNION { UNION { Range(fs[p].body[b]) : b \in DOMAIN fs[p].body } : p \in DOMAIN fs }

\* the card of the i-th listing on the index page, and its detail page
CardOf(i) == fs[IndexPath].body[i + 1]
DetailOf(i) == fs[DetailPath(shops[i].slug)].body[1]

RowOf(i) == input[origin[i]]

-----------------------------------------------------------------------------
(* C1: in every generator, the slugs of the listings built in one run are
   pairwise distinct, whatever the names. *)
SlugsPairwiseDistinct ==
  \A i, j \in DOMAIN shops : i /= j => shops[i].slug /= shops[j].slug

\* three listings of one run: two of the same name and one named "a 2"
SlugsPairwiseDistinctWitness ==
  /\ pc = "done"
  /\ \E i, j, k \in DOMAIN shops :
       /\ i /= j /\ shops[i].name = shops[j].name
       /\ shops[k].name = <<"a", " ", "2">>
       /\ shops[k].slug \in {Suffixed(<<"a">>, 2), Suffixed(<<"a">>, 3)}

(* C2: every allocated slug is in normal form: non-empty, made of lowercase
   ASCII letters, digits and "-" (and CJK ideographs in build_sites.py), no
   uppercase letter, no two consecutive "-", no "-" at either end. *)
SlugCharAllowed(c) == IsLower(c) \/ IsDigit(c) \/ c = "-" \/ (gen = "B" /\ IsCJK(c))

InNormalForm(s) ==
  /\ s /= <<>>
  /\ \A i \in DOMAIN s : SlugCharAllowed(s[i])
  /\ s[1] /= "-" /\ s[Len(s)] /= "-"
  /\ \A i \in 1..(Len(s) - 1) : ~(s[i] = "-" /\ s[i + 1] = "-")

SlugsInNormalForm == \A i \in DOMAIN shops : InNormalForm(shops[i].slug)

(* C3: the allocated slug is the base when the base is not in the visited
   set, and otherwise base-k for the least k >= 2 with base-k not in it. *)
CollisionResolution ==
  \A i \in DOMAIN shops :
    LET base == BaseOf(i)
        seen == Earlier(i)
    IN  IF base \notin seen THEN shops[i].slug = base
        ELSE \E k \in 2..(Cardinality(seen) + 2) :
               /\ shops[i].slug = Suffixed(base, k)
               /\ Suffixed(base, k) \notin seen
               /\ \A m \in 2..(k - 1) : Suffixed(base, m) \in seen

\* a listing whose base and base-2 were both taken and that got base-3
CollisionResolutionWitness ==
  \E i \in DOMAIN shops :
    /\ BaseOf(i) \in Earlier(i)
    /\ Suffixed(BaseOf(i), 2) \in Earlier(i)
    /\ shops[i].slug = Suffixed(BaseOf(i), 3)

(* C4 as stated: the scenario row parses to name "Joe's Plumbing", rating
   4.5, review count 120, slug "joes-plumbing", features ["Drain Cleaning"]:
   the apostrophe is dropped from the slug.  The slug is compared without
   regard to letter case, so that only the apostrophe decides. *)
ScenarioFields(l) ==
  /\ l.name = <<"J","o","e","'","s"," ","P","l","u","m","b","i","n","g">>
  /\ l.rating = Some([kind |-> "finite", neg |-> FALSE, mant |-> 45, scale |-> 1])
  /\ l.review_count = Some(120)
  /\ Features(l) = << <<"D","r","a","i","n"," ","C","l","e","a","n","i","n","g">> >>

FullRegeneration == pc = "done" => fs = FromScratch(shops)

(* C6: every text taken from the input is HTML-escaped wherever a page
   embeds it, in element text and in attributes: no page holds a raw
   "<", ">", "&" or quote character inside an interpolation. *)
UnsafeChars == {"<", ">", "&", "\"", "'"}

AllUserTextEscaped ==
  \A e \in Interpolations : \A k \in DOMAIN e.val : e.val[k] \notin UnsafeChars

(* C7: a run whose input file is missing fails without touching the output
   tree: nothing is created, overwritten or deleted. *)
MissingInputTouchesNothing ==
  [][(error' = "FileNotFoundError" /\ runs' /= runs) => fs' = fs]_vars

\* a run that failed on a missing input file after an earlier run left output
MissingInputTouchesNothingWitness ==
  /\ error = "FileNotFoundError"
  /\ runs = MaxRuns
  /\ \E p \in DOMAIN fs : fs[p].kind = "file"

(* C8: a data row of 0 to 10 columns never aborts the run. *)
ShortRowNeverAborts ==
  (pc = "failed" /\ error \in {"IndexError", "AttributeError"}) =>
    Len(input[Len(input)]) > 10

(* C9: no tel: link is rendered for a listing without a phone, and no map
   anchor at all for a listing whose map URL cell is blank, on its card and
   on its detail page. *)
MapCellBlank(row) == Len(row) = 0 \/ Strip(row[1]) = <<>>

HasLink(block, role) == \E k \in DOMAIN block : block[k].role = role

LinksOmittedWhenAbsent ==
  pc = "done" =>
    \A i \in DOMAIN shops :
      /\ shops[i].phone = None =>
           ~HasLink(CardOf(i), "tel_link") /\ ~HasLink(DetailOf(i), "tel_link")
      /\ MapCellBlank(RowOf(i)) =>
           ~HasLink(CardOf(i), "map_link") /\ ~HasLink(DetailOf(i), "map_link")

(* C10: no entry of a listing's feature list consists only of punctuation
   or symbol characters (with or without whitespace between them). *)
\* the punctuation characters of the alphabet (Unicode categories P*)
IsPunct(c) == c \in {MIDDOT, "-", "!", "'", "\"", "(", ")", ",", ".", "/", ":", "&", "#", "?",
                     "_", "U+2018", "U+2014", "U+00B6", "U+00BB"}

PureDecoration(text) ==
  /\ \A k \in DOMAIN text : IsPunct(text[k]) \/ IsSymbol(text[k]) \/ IsSpace(text[k])
  /\ \E k \in DOMAIN text : IsPunct(text[k]) \/ IsSymbol(text[k])

NoDecorativeFeature ==
  \A i \in DOMAIN shops :
    \A k \in DOMAIN Features(shops[i]) : ~PureDecoration(Features(shops[i])[k])

(* C11: a feature cell containing the advertising marker sets the listing's
   sponsorship flag and is kept out of its feature list; a row without such
   a cell has the flag false. *)
AD_MARKER_TEXT == G_AD_MARKER

AdMarked(row) ==
  \E k \in DOMAIN SliceFrom(row, 11) : Contains(SliceFrom(row, 11)[k], AD_MARKER_TEXT)

\* the sponsorship flag of a listing; a listing without the field has no flag set
Sponsored(l) == "sponsored" \in DOMAIN l /\ l.sponsored

AdMarkerSetsFlag ==
  \A i \in DOMAIN shops :
    /\ AdMarked(RowOf(i)) =>
         /\ Sponsored(shops[i])
         /\ \A k \in DOMAIN Features(shops[i]) :
              ~Contains(Features(shops[i])[k], AD_MARKER_TEXT)
    /\ ~AdMarked(RowOf(i)) => ~Sponsored(shops[i])

(* C12: a listing's feature list holds no two equal strings, and its entries
   stand in the order in which their cleaned values first occur among the
   row's feature cells. *)
FeatureCellsOf(row) == SliceFrom(row, 11)

\* the cleaned value of one feature cell, as the generator at hand cleans it
CleanedCell(cell) ==
  CASE gen = "G" -> tidy(cell)
    [] gen = "B" -> clean_feature(cell)
    [] gen = "S" -> OrNone(S_clean(Some(cell)))

\* the positions of the row's feature cells whose cleaned value is v
CellsCleaningTo(row, v) ==
  {k \in DOMAIN FeatureCellsOf(row) : CleanedCell(FeatureCellsOf(row)[k]) = Some(v)}

FirstCell(row, v) ==
  CHOOSE k \in CellsCleaningTo(row, v) : \A m \in CellsCleaningTo(row, v) : k <= m

FeaturesDistinctInFirstSeenOrder ==
  \A i \in DOMAIN shops :
    LET f == Features(shops[i]) IN
      /\ \A j, k \in DOMAIN f : j /= k => f[j] /= f[k]
      /\ \A j \in DOMAIN f : CellsCleaningTo(RowOf(i), f[j]) /= {}
      /\ \A j, k \in DOMAIN f :
           j < k => FirstCell(RowOf(i), f[j]) < FirstCell(RowOf(i), f[k])

(* C13: a rating cell that is empty or not a well-formed decimal number
   makes the listing's rating absent: the malformed text is never kept as
   the rating, and it never makes the run raise an error. *)
RatingCell(row) == IF Len(row) >= 3 THEN row[3] ELSE <<>>

\* optional sign, digits with at most one decimal point, at least one digit
WellFormedDecimal(cell) ==
  LET t    == Strip(cell)
      body == IF t /= <<>> /\ t[1] \in {"+", "-"} THEN Tail(t) ELSE t
  IN  /\ \E k \in DOMAIN body : IsDigit(body[k])
      /\ \A k \in DOMAIN body : IsDigit(body[k]) \/ body[k] = "."
      /\ Cardinality({k \in DOMAIN body : body[k] = "."}) <= 1

MalformedRatingIsAbsent ==
  /\ \A i \in DOMAIN shops :
       ~WellFormedDecimal(RatingCell(RowOf(i))) => shops[i].rating = None
  /\ error \notin {"ValueError", "OverflowError"}

(* C14: a listing whose rating is absent is shown, on its index card and on
   its detail page, with the rating placeholder and never with a number. *)
RatingPlaceholder ==
  CASE gen = "G" -> <<"G:no-rating">>
    [] gen = "B" -> <<"-", "-">>
    [] gen = "S" -> <<"S:no-rating">>

Shown(block, role) == {block[k].val : k \in {m \in DOMAIN block : block[m].role = role}}

HasDigit(text) == \E k \in DOMAIN text : IsDigit(text[k])

AbsentRatingShowsPlaceholder ==
  pc = "done" =>
    \A i \in DOMAIN shops :
      shops[i].rating = None =>
        /\ Shown(CardOf(i), "rating") = {RatingPlaceholder}
        /\ Shown(DetailOf(i), "rating") = {RatingPlaceholder}
        /\ \A v \in Shown(CardOf(i), "rating") \cup Shown(DetailOf(i), "rating") : ~HasDigit(v)

\* a finished run of build_sites.py with a listing whose rating cell was empty
\* next to one with a rating
AbsentRatingShowsPlaceholderWitness ==
  /\ pc = "done" /\ gen = "B"
  /\ \E i, j \in DOMAIN shops :
       /\ shops[i].rating = None /\ RatingCell(RowOf(i)) = <<>>
       /\ shops[j].rating /= None

(* C15: the review count is the integer read from the digits of the review
   cell, every other character deleted, and is absent when the cell is empty
   or has no digit; it is never negative. *)
ReviewCell(row) == IF Len(row) >= 4 THEN row[4] ELSE <<>>

DigitsOf(cell) == SelectSeq(cell, IsDigit)

ReviewCountIsDigits ==
  gen \in {"G", "B"} =>
    \A i \in DOMAIN shops :
      LET d == DigitsOf(ReviewCell(RowOf(i)))
      IN  /\ shops[i].review_count = IF d = <<>> THEN None ELSE Some(DigitsValue(d))
          /\ shops[i].review_count /= None => Val(shops[i].review_count) >= 0

(* C16: a listing whose review count is absent is never shown with a number
   of reviews, neither on its index card nor on its detail page. *)
ReviewsAbsent(l) == IF gen = "S" THEN l.reviews = <<>> ELSE l.review_count = None

\* the texts in which a page block states the listing's number of reviews
ReviewTexts(block) ==
  IF gen = "B" THEN {v \in Shown(block, "rating") : "B:(" \in Range(v)}
  ELSE Shown(block, "reviews")

AbsentReviewsShowNoNumber ==
  pc = "done" =>
    \A i \in DOMAIN shops :
      ReviewsAbsent(shops[i]) =>
        \A v \in ReviewTexts(CardOf(i)) \cup ReviewTexts(DetailOf(i)) : ~HasDigit(v)

(* C17: a data row whose name cell is missing, empty or whitespace only gets
   a placeholder name that carries the decimal 1-based position of the row
   among the data rows of the file. *)
NameCellBlank(row) == Len(row) < 2 \/ Strip(row[2]) = <<>>

BlankNameCarriesOrdinal ==
  \A i \in DOMAIN shops :
    NameCellBlank(RowOf(i)) => DigitsOf(shops[i].name) = Digits(origin[i])

(* C18: after a successful run the number in the completion message equals
   the number of listings built and the number of detail documents present
   in the output: one per listing, at the path named by its slug, holding
   that listing's page. *)
DetailRoot ==
  CASE gen = "G" -> SHOPS_DIR
    [] gen = "B" -> BUSINESS_DIR
    [] gen = "S" -> DOCS_DIR \o <<Seg("stores")>>

DetailDocs ==
  {p \in DOMAIN fs : /\ fs[p].kind = "file"
                     /\ Len(p) > Len(DetailRoot)
                     /\ SubSeq(p, 1, Len(DetailRoot)) = DetailRoot}

DetailPageOf(l) ==
  CASE gen = "G" -> G_shop_page(l)
    [] gen = "B" -> B_detail_page(l)
    [] gen = "S" -> S_store_page(l)

CountMatchesDetailDocuments ==
  pc = "done" =>
    /\ printed = Some(Len(shops))
    /\ Cardinality(DetailDocs) = Len(shops)
    /\ \A i \in DOMAIN shops :
         /\ DetailPath(shops[i].slug) \in DetailDocs
         /\ fs[DetailPath(shops[i].slug)].body = DetailPageOf(shops[i])

(* C19: determinism: the tree a run writes is a function of the input file
   and of the output tree it starts from; whatever the order in which the
   process iterates over its sets, the written tree is one and the same. *)
RunOutcomes ==
  CASE gen = "G" -> {G_main_write(fs, shops)}
    [] gen = "B" -> {B_main_write(fs, shops, iter) : iter \in B_set_orders(shops)}
    [] gen = "S" -> {S_main_write(fs, shops)}

OutputDeterministic == pc = "parsing" => Cardinality(RunOutcomes) = 1

\* build_sites.py at the end of a file whose listings have two categories and
\* two statuses, met in descending order: the process may iterate over each
\* set in two orders
OutputDeterministicWitness ==
  /\ gen = "B" /\ pc = "parsing" /\ Len(shops) = 2
  /\ Less(shops[2].category, shops[1].category)
  /\ Less(Val(shops[2].status), Val(shops[1].status))
  /\ Cardinality(B_set_orders(shops)) = 4

(* C20: the index page holds exactly one card per listing, in input-row
   order; a card shows as chips the first entries of the listing's feature
   list, in list order (at most 4 in build_sites.py, at most 3 in
   generate_sites.py, none in scripts/generate_sites.py); the detail page
   shows every entry of the feature list, in list order. *)
ChipRole == CASE gen = "G" -> "tag" [] gen = "B" -> "chip" [] gen = "S" -> "highlight"

CardChipLimit == CASE gen = "G" -> 3 [] gen = "B" -> 4 [] gen = "S" -> 0

\* how many times the template of the detail page lists the features
DetailFeatureSections == IF gen = "B" THEN 2 ELSE 1

\* the texts of the chips of a block, in page order
Chips(block) ==
  LET at == SelectSeq([k \in DOMAIN block |-> k], LAMBDA k : block[k].role = ChipRole)
  IN  [k \in DOMAIN at |-> block[at[k]].val]

Escaped(texts) == [k \in DOMAIN texts |-> Escape(texts[k])]

Prefix(s, n) == [k \in 1..(IF Len(s) < n THEN Len(s) ELSE n) |-> s[k]]

IndexCardsAndChips ==
  pc = "done" =>
    /\ Len(fs[IndexPath].body) = Len(shops) + 1
    /\ \A i, j \in DOMAIN shops : i < j => origin[i] < origin[j]
    /\ \A i \in DOMAIN shops :
         LET f == Escaped(Features(shops[i])) IN
           /\ Shown(CardOf(i), "name") = {Escape(shops[i].name)}
           /\ \A href \in Shown(CardOf(i), "detail_link") : Contains(href, shops[i].slug)
           /\ Shown(CardOf(i), "detail_link") /= {}
           /\ Chips(CardOf(i)) = Prefix(f, CardChipLimit)
           /\ f /= <<>> =>
                Chips(DetailOf(i)) = IF DetailFeatureSections = 2 THEN f \o f ELSE f

\* a finished run of build_sites.py with a listing of five features after
\* another listing: four chips on its card, all five in each section of its page
IndexCardsAndChipsWitness ==
  /\ pc = "done" /\ gen = "B"
  /\ \E i \in DOMAIN shops :
       /\ i > 1
       /\ Len(Features(shops[i])) = 5
       /\ Len(Chips(CardOf(i))) = 4
       /\ Len(Chips(DetailOf(i))) = 10

(* C21: in build_sites.py the category options of the index page are exactly
   the distinct non-empty categories of the listings, and the status options
   exactly their distinct non-empty statuses: each list in ascending order,
   every such value once, and no value that no listing has. *)
ListedCategories == {shops[i].category : i \in DOMAIN shops} \ {<<>>}

ListedStatuses ==
  {Val(shops[i].status) : i \in {j \in DOMAIN shops : shops[j].status /= None}} \ {<<>>}

\* the values of the options of one filter of the index page, in page order
OptionValues(role) ==
  LET head == fs[IndexPath].body[1]
      at   == SelectSeq(head, LAMBDA e : e.role = role /\ e.attr = "value")
  IN  [i \in DOMAIN at |-> at[i].val]

\* the option list holds the values of `listed`, each once, in ascending order
ExactlyAscending(options, listed) ==
  /\ Range(options) = {Escape(v) : v \in listed}
  /\ Len(options) = Cardinality(listed)
  /\ \A i, j \in DOMAIN options :
       i < j => \E a, b \in listed :
                  options[i] = Escape(a) /\ options[j] = Escape(b) /\ Less(a, b)

FilterOptionsSortedDistinct ==
  (gen = "B" /\ pc = "done") =>
    /\ ExactlyAscending(OptionValues("category_option"), ListedCategories)
    /\ ExactlyAscending(OptionValues("status_option"), ListedStatuses)

\* three listings: one without category and status, the other two with
\* categories and statuses met in descending order
FilterOptionsSortedDistinctWitness ==
  /\ gen = "B" /\ pc = "done" /\ Len(shops) = 3
  /\ \E i \in DOMAIN shops : shops[i].category = <<>> /\ shops[i].status = None
  /\ \E i, j \in DOMAIN shops :
       /\ i < j
       /\ shops[i].category /= <<>> /\ Less(shops[j].category, shops[i].category)
       /\ shops[j].category /= <<>>
       /\ shops[i].status /= None /\ shops[j].status /= None
       /\ Less(Val(shops[j].status), Val(shops[i].status))
  /\ Len(OptionValues("category_option")) = 2

(* C22: every relative reference of a page a run generates resolves, from
   the place of that page in the output tree, to a document the same run
   wrote: a card's detail link to that listing's detail document, a detail
   page's back-link to the index document, a page's stylesheet (script)
   reference to the stylesheet (script) file of the run. *)

\* the segments of a relative reference: its tokens between the "/"
RECURSIVE Segments(_)
Segments(href) ==
  LET cuts == {i \in DOMAIN href : href[i] = "/"}
  IN  IF cuts = {} THEN <<href>>
      ELSE LET k == CHOOSE i \in cuts : \A j \in cuts : i <= j
           IN  <<SubSeq(href, 1, k - 1)>> \o Segments(SliceFrom(href, k))

\* the path reached from directory `dir` along the segments `segs`
RECURSIVE Walk(_, _)
Walk(dir, segs) ==
  IF segs = <<>> THEN dir
  ELSE IF Head(segs) \in {<<>>, <<".">>} THEN Walk(dir, Tail(segs))
  ELSE IF Head(segs) = <<"..">>
    THEN Walk(IF dir = <<>> THEN dir ELSE SubSeq(dir, 1, Len(dir) - 1), Tail(segs))
  ELSE Walk(Append(dir, Head(segs)), Tail(segs))

\* the path a reference of the page at `page` resolves to
Resolve(page, href) == Walk(SubSeq(page, 1, Len(page) - 1), Segments(href))

\* the files the run writes, and the targets of the references of a block
WrittenFiles ==
  {p \in DOMAIN FromScratch(shops) : FromScratch(shops)[p].kind = "file"}

Targets(page, block, role) == {Resolve(page, href) : href \in Shown(block, role)}

AssetFiles(content) ==
  {p \in WrittenFiles : FromScratch(shops)[p].body = << <<El("asset", "text", content)>> >>}

StylesheetFiles == AssetFiles(<<"G:styles">>) \cup AssetFiles(<<"B:STYLE_CONTENT">>)
ScriptFiles == AssetFiles(<<"B:SCRIPT_CONTENT">>)

\* the stylesheet and script references of one page lead to the run's assets
AssetsResolve(page) ==
  /\ Targets(page, fs[page].body[1], "stylesheet") /= {}
  /\ Targets(page, fs[page].body[1], "stylesheet") \subseteq StylesheetFiles
  /\ Targets(page, fs[page].body[1], "script") \subseteq ScriptFiles

ReferencesResolve ==
  pc = "done" =>
    /\ AssetsResolve(IndexPath)
    /\ \A i \in DOMAIN shops :
         /\ Targets(IndexPath, CardOf(i), "detail_link") = {DetailPath(shops[i].slug)}
         /\ DetailPath(shops[i].slug) \in WrittenFiles
         /\ Targets(DetailPath(shops[i].slug), DetailOf(i), "back_link") = {IndexPath}
         /\ AssetsResolve(DetailPath(shops[i].slug))

(* C23: visited-set invariant: after the rows of any prefix of the input
   have been processed, the slug visited-set is exactly the set of slugs of
   the listings built so far; an allocation adds exactly one element, the
   slug it returns, and removes none; a skipped row adds none.  A row on
   which the run aborts has not been processed: the run ends there. *)
ListingSlugs(listings) == {listings[i].slug : i \in DOMAIN listings}

\* this step reads a row on which the run aborts
RowAborts == pc = "parsing" /\ pc' = "failed" /\ Len(input') = Len(input) + 1

\* this step reads a row of the current run without aborting
RowProcessed == pc = "parsing" /\ Len(input') = Len(input) + 1 /\ ~RowAborts

VisitedSetStep ==
  /\ ~RowAborts => used_slugs' = ListingSlugs(shops')
  /\ RowProcessed =>
       \/ shops' = shops /\ used_slugs' = used_slugs
       \/ /\ Len(shops') = Len(shops) + 1
          /\ SubSeq(shops', 1, Len(shops)) = shops
          /\ shops'[Len(shops')].slug \notin used_slugs
          /\ used_slugs' = used_slugs \cup {shops'[Len(shops')].slug}

====
